---- MODULE Spec2Model ----
(***************************************************************************)
(* On-call schedule service: the two Schedule Store implementations        *)
(* (MemoryStorage, PostgresStorage), the time-window matching each one     *)
(* applies in GetCurrentOncall, and the HTTP handler's GetSchedule.        *)
(***************************************************************************)
EXTENDS Integers, Sequences, FiniteSets, TLC

(***************************************************************************)
(* Bounds of the model.                                                    *)
(***************************************************************************)
\* schedules one store holds at most (successful AddSchedule calls)
MaxSchedules == 2
\* goroutines calling MemoryStorage.AddSchedule concurrently
NumWriters == 2

(***************************************************************************)
(* time.Time.  An instant is a count of seconds since the Unix epoch, a    *)
(* nanosecond part and the offset (seconds east of UTC) of its Location.   *)
(* The calendar date is kept as the local day number since the epoch.      *)
(***************************************************************************)
\* time.Sunday .. time.Saturday are 0 .. 6
Weekdays == 0..6

\* seconds since the epoch of the wall clock shown in t's own Location
LocalSec_utc(t) == t.sec

LocalSec(t) == t.sec + t.off

\* at.Year(), at.Month(), at.Day(): the local calendar day
Day(t) == LocalSec(t) \div 86400

\* at.Weekday(): 1970-01-01 was a Thursday (4)
Weekday(t) == (4 + Day(t)) % 7

Hour(t) == (LocalSec(t) % 86400) \div 3600

Minute(t) == (LocalSec(t) % 3600) \div 60

Second(t) == LocalSec(t) % 60

Nanosecond(t) == t.nsec

\* time.Date(year, month, day, hour, min, sec, nsec, loc)
Date(day, hour, min, s, nsec, off) ==
    [sec |-> day * 86400 + hour * 3600 + min * 60 + s - off, nsec |-> nsec, off |-> off]

\* Time.After, Time.Before, Time.Equal compare the instants, not the wall clocks
After(t, u) == t.sec > u.sec \/ (t.sec = u.sec /\ t.nsec > u.nsec)

Before_orEqual(t, u) == t.sec <= u.sec

Before(t, u) == t.sec < u.sec \/ (t.sec = u.sec /\ t.nsec < u.nsec)

Equal(t, u) == t.sec = u.sec /\ t.nsec = u.nsec

\* t.Format("15:04:05"): the local wall clock as HH:MM:SS, nanoseconds dropped
Format150405(t) == <<Hour(t), Minute(t), Second(t)>>

\* comparison of two SQL TIME values ($3::time parses HH:MM:SS back)
TimeLE(a, b) ==
    \/ a[1] < b[1]
    \/ a[1] = b[1] /\ a[2] < b[2]
    \/ a[1] = b[1] /\ a[2] = b[2] /\ a[3] <= b[3]

\* time.Parse(time.Kitchen, "H:MMAM"): a wall clock on the zero date, UTC
Kitchen(hour, min) == [sec |-> hour * 3600 + min * 60, nsec |-> 0, off |-> 0]

(***************************************************************************)
(* Inputs.                                                                 *)
(***************************************************************************)
Teams == {"ops", "dev"}

\* the query instants: local day, local clock (seconds), nanoseconds, offset
\* 20204 is Saturday 2025-04-26 and 20206 is Monday 2025-04-28
SampleDays == {20204, 20206}

\* 08:59:00, 09:00:00, 10:00:00, 17:00:00, 17:01:00
SampleClocks == {32340, 32400, 36000, 61200, 61260}

\* the two ends of the 09:00-17:00 window
BoundaryClocks == {32400, 61200}

At(day, clock, nsec, off) == [sec |-> day * 86400 + clock - off, nsec |-> nsec, off |-> off]

\* whole seconds in UTC; half a second past each boundary; the boundaries at
\* +03:30; Monday 09:00 at +12:00 (Sunday 21:00 in UTC) and Sunday 22:00 at
\* -12:00 (Monday 10:00 in UTC)
InstantFields ==
    {<<d, c, 0, 0>> : d \in SampleDays, c \in SampleClocks}
        \cup {<<20206, c, 500000000, 0>> : c \in BoundaryClocks}
        \cup {<<20206, c, 0, 12600>> : c \in BoundaryClocks}
        \cup {<<20206, 32400, 0, 43200>>, <<20205, 79200, 0, -43200>>}

Instants == {At(f[1], f[2], f[3], f[4]) : f \in InstantFields}

NoInstant == [sec |-> 0, nsec |-> 0, off |-> 0]

\* the schedules callers hand to AddSchedule (the store validates nothing)
Schedule(name, members, days, start, end) ==
    [Name |-> name, Members |-> members, Days |-> days, Start |-> start, End |-> end]

Weekday1 == Schedule("Weekday", <<"Alice", "Bob">>, <<1, 2>>, Kitchen(9, 0), Kitchen(17, 0))

\* overlaps Weekday1 on Mondays
Backup == Schedule("Backup", <<"Bob">>, <<1, 6>>, Kitchen(9, 0), Kitchen(17, 0))

\* the name of Weekday1 again, starting where its window ends
Weekday2 == Schedule("Weekday", <<"Carol", "Alice">>, <<6>>, Kitchen(17, 0), Kitchen(23, 0))

NoMembers == Schedule("Empty", << >>, <<1>>, Kitchen(9, 0), Kitchen(17, 0))

SameMemberTwice == Schedule("Twice", <<"Alice", "Alice">>, <<1>>, Kitchen(9, 0), Kitchen(17, 0))

SameDayTwice == Schedule("Days", <<"Carol">>, <<6, 6>>, Kitchen(9, 0), Kitchen(17, 0))

Schedules == {Weekday1, Backup, Weekday2, NoMembers, SameMemberTwice, SameDayTwice}

\* the AddSchedule calls: every schedule for "ops", two of them for "dev"
Adds == ({"ops"} \X Schedules) \cup ({"dev"} \X {Weekday1, NoMembers})

\* the JSON body of POST /schedule as c.Bind reads it into Request; the text of
\* a time is written <<hour, minute, suffix>> ("9:00AM" is <<9, 0, "AM">>,
\* "25:00" is <<25, 0, "">>), the text of a day is the sequence of its runes
\* ("U+017F" is the rune LATIN SMALL LETTER LONG S, "U+212A" the rune KELVIN
\* SIGN), and << >> is the empty string
Request(name, team, members, days, start, end) ==
    [body |-> "json", Name |-> name, Team |-> team, Members |-> members, Days |-> days,
     Start |-> start, End |-> end]

\* no request: the store was called directly
NoRequest == [Request("", "", << >>, << >>, << >>, << >>) EXCEPT !.body = "none"]

\* a body that is not JSON
Malformed == [Request("", "", << >>, << >>, << >>, << >>) EXCEPT !.body = "malformed"]

WeekdayReq ==
    Request("Weekday", "ops", <<"Alice", "Bob">>, <<<<"M", "o", "n", "d", "a", "y">>,
              <<"t", "u", "e", "s", "d", "a", "y">>>>,
            <<9, 0, "AM">>, <<5, 0, "PM">>)

BackupReq ==
    Request("Backup", "ops", <<"Bob">>,
            <<<<"m", "o", "n", "d", "a", "y">>,
              <<"S", "A", "T", "U", "R", "D", "A", "Y">>>>,
            <<9, 0, "AM">>, <<5, 0, "PM">>)

\* day texts sent one to a request: spellings of weekday names in other letter
\* cases, with the long s, cut short, drawn out, with a blank, and the empty string
DayTexts ==
    {<<"m", "O", "n", "D", "a", "Y">>,
     <<"U+017F", "u", "n", "d", "a", "y">>,
     <<"M", "o", "n">>,
     <<"M", "o", "n", "d", "a", "y", "s">>,
     <<" ", "m", "o", "n", "d", "a", "y">>,
     <<"M", "o", "n", "d", "a", " ", "y">>,
     << >>}

\* every weekday in one request, in mixed spellings
AllDays ==
    <<<<"s", "u", "n", "d", "a", "y">>,
      <<"M", "O", "N", "D", "A", "Y">>,
      <<"T", "u", "e", "s", "d", "a", "y">>,
      <<"w", "E", "D", "N", "E", "S", "D", "A", "Y">>,
      <<"t", "h", "u", "r", "s", "d", "a", "y">>,
      <<"F", "R", "I", "D", "A", "Y">>,
      <<"S", "a", "t", "u", "r", "d", "a", "y">>>>

\* the requests sent: the two above, one without a name, WeekdayReq with one
\* field spoiled at a time, then with several, and WeekdayReq on other days
Requests ==
    {WeekdayReq, BackupReq, Malformed,
     [BackupReq EXCEPT !.Name = ""],
     [WeekdayReq EXCEPT !.Team = ""],
     [WeekdayReq EXCEPT !.Members = << >>],
     [WeekdayReq EXCEPT !.Days = << >>],
     [WeekdayReq EXCEPT !.Start = << >>],
     [WeekdayReq EXCEPT !.End = << >>],
     [WeekdayReq EXCEPT !.Days = <<<<"M", "o", "n", "d", "a", "y">>,
                                   <<"I", "n", "v", "a", "l", "i", "d", "D", "a", "y">>>>],
     [WeekdayReq EXCEPT !.Start = <<25, 0, "">>],
     [WeekdayReq EXCEPT !.End = <<5, 0, "XM">>],
     [WeekdayReq EXCEPT !.Start = <<5, 0, "PM">>],
     [WeekdayReq EXCEPT !.Start = <<5, 0, "PM">>, !.End = <<9, 0, "AM">>],
     [WeekdayReq EXCEPT !.Team = "", !.Members = << >>],
     [WeekdayReq EXCEPT !.Members = << >>, !.Days = << >>, !.End = << >>],
     [WeekdayReq EXCEPT !.Days = << >>, !.Start = << >>],
     [WeekdayReq EXCEPT !.Start = << >>, !.End = << >>],
     [WeekdayReq EXCEPT !.Days = AllDays]}
        \cup {[WeekdayReq EXCEPT !.Days = <<d>>] : d \in DayTexts}

VARIABLES
    storage,    \* Handler.storage: which Storage implementation the process runs
    data,       \* MemoryStorage.data: map[string]Team
    mu,         \* MemoryStorage.mu: the RWMutex
    pc,         \* position of every goroutine inside its MemoryStorage call
    local,      \* the goroutines' local variable t
    db,         \* PostgreSQL: the committed rows of every table
    tx,         \* PostgresStorage.AddSchedule: the call in progress and its transaction
    ret,        \* what the last finished call returned, and the response to the
                \* request it served (req, status, json, body)
    added       \* history: per store and team, the schedules of the calls that returned nil

vars == <<storage, data, mu, pc, local, db, tx, ret, added>>

\* the zero value a call leaves in the results it does not set
NoRet ==
    [op |-> "none", team |-> "", at |-> NoInstant, oncall |-> "", ok |-> FALSE,
     err |-> "nil", Schedules |-> << >>, via |-> 0, status |-> 0, body |-> << >>,
     json |-> "", req |-> NoRequest]

\* s[i] with Go's bounds check (i counts from 1 here)
Index(s, i) == IF i \in 1..Len(s) THEN s[i] ELSE "panic: index out of range"

RECURSIVE SumLen(_, _)
SumLen(m, keys) ==
    IF keys = {} THEN 0
    ELSE LET k == CHOOSE x \in keys : TRUE
         IN Len(m[k].Schedules) + SumLen(m, keys \ {k})

(***************************************************************************)
(* MemoryStorage                                                           *)
(***************************************************************************)
\* make(map[string]Team)
NewMemoryStorage == [t \in {} |-> [Schedules |-> << >>]]

\* t := s.data[team]: a missing key reads as the zero Team
MapGet(m, team) == IF team \in DOMAIN m THEN m[team] ELSE [Schedules |-> << >>]

MapSet_only(m, team, t) == [k \in {team} |-> t]

\* s.data[team] = t
MapSet(m, team, t) == [k \in DOMAIN m \cup {team} |-> IF k = team THEN t ELSE m[k]]

MapRead_insert(m, team) == MapSet(m, team, MapGet(m, team))

\* the map after t, ok := s.data[team]: reading a key, stored or not, adds none
MapRead(m, team) == m

AppendSchedule_overwrite(t, schedule) == [t EXCEPT !.Schedules = <<schedule>>]

\* t.Schedules = append(t.Schedules, schedule)
AppendSchedule(t, schedule) == [t EXCEPT !.Schedules = Append(t.Schedules, schedule)]

dayMatches_always(sched, at) == TRUE

\* the inner loop over sched.Days
dayMatches(sched, at) == \E i \in 1..Len(sched.Days) : sched.Days[i] = Weekday(at)

schedTime(at) ==
    Date(Day(at), Hour(at), Minute(at), Second(at), Nanosecond(at), at.off)

schedStart(sched, at) ==
    Date(Day(at), Hour(sched.Start), Minute(sched.Start), Second(sched.Start), 0, at.off)

schedEnd(sched, at) ==
    Date(Day(at), Hour(sched.End), Minute(sched.End), Second(sched.End), 0, at.off)

\* schedTime.After(schedStart) && schedTime.Before(schedEnd) || schedTime.Equal(schedStart)
MemoryInWindow(sched, at) ==
    \/ After(schedTime(at), schedStart(sched, at)) /\ Before(schedTime(at), schedEnd(sched, at))
    \/ Equal(schedTime(at), schedStart(sched, at))

HasMembers_always(sched) == TRUE

\* len(sched.Members) > 0
HasMembers(sched) == Len(sched.Members) > 0

FirstMember_last(sched) == Index(sched.Members, Len(sched.Members))

\* sched.Members[0]
FirstMember(sched) == Index(sched.Members, 1)

\* for _, sched := range t.Schedules { ... }; via is the index the loop returned from
RECURSIVE MemoryScan(_, _, _)
MemoryScan(scheds, i, at) ==
    IF i > Len(scheds) THEN [oncall |-> "", ok |-> FALSE, via |-> 0]
    ELSE IF ~dayMatches(scheds[i], at) THEN MemoryScan(scheds, i + 1, at)
    ELSE IF MemoryInWindow(scheds[i], at) /\ HasMembers(scheds[i])
         THEN [oncall |-> FirstMember(scheds[i]), ok |-> TRUE, via |-> i]
    ELSE MemoryScan(scheds, i + 1, at)

MemoryOncall(m, team, at) ==
    IF team \notin DOMAIN m THEN [oncall |-> "", ok |-> FALSE, via |-> 0]
    ELSE MemoryScan(m[team].Schedules, 1, at)

\* one caller at a time: the lock is taken and released inside the step
MemoryStorage_AddSchedule(team, schedule) ==
    /\ storage = "memory"
    /\ \A g \in DOMAIN pc : pc[g] = "idle"
    /\ SumLen(data, DOMAIN data) < MaxSchedules
    /\ data' = MapSet(data, team, AppendSchedule(MapGet(data, team), schedule))
    /\ ret' = [NoRet EXCEPT !.op = "AddSchedule", !.team = team]
    /\ added' = [added EXCEPT ![team] = Append(@, schedule)]
    /\ UNCHANGED <<storage, mu, pc, local, db, tx>>

MemoryStorage_GetTeam(team) ==
    /\ storage = "memory"
    /\ \A g \in DOMAIN pc : pc[g] = "idle"
    /\ ret' = [NoRet EXCEPT !.op = "GetTeam", !.team = team,
                            !.Schedules = MapGet(data, team).Schedules,
                            !.ok = (team \in DOMAIN data)]
    /\ data' = MapRead(data, team)
    /\ UNCHANGED <<storage, mu, pc, local, db, tx, added>>

MemoryStorage_GetCurrentOncall(team, at) ==
    /\ storage = "memory"
    /\ \A g \in DOMAIN pc : pc[g] = "idle"
    /\ LET r == MemoryOncall(data, team, at)
       IN ret' = [NoRet EXCEPT !.op = "GetCurrentOncall", !.team = team, !.at = at,
                               !.oncall = r.oncall, !.ok = r.ok, !.via = r.via]
    /\ data' = MapRead(data, team)
    /\ UNCHANGED <<storage, mu, pc, local, db, tx, added>>

(***************************************************************************)
(* PostgresStorage.  db holds the committed rows of the tables; a call of  *)
(* AddSchedule works on tx.work, the transaction's own view, which becomes *)
(* db at Commit and is dropped by Rollback.  A SERIAL id is modelled as    *)
(* the next id unused in the table (gaps left by rolled-back inserts are   *)
(* not kept); last_rotation_at (the wall clock) is left out.               *)
(***************************************************************************)
EmptyDB ==
    [teams |-> {}, users |-> {}, team_members |-> {}, schedules |-> {},
     schedule_days |-> {}, schedule_members |-> {}, rotations |-> {}]

NoSchedule == Schedule("", << >>, << >>, NoInstant, NoInstant)

NoTx ==
    [pc |-> "idle", teamName |-> "", schedule |-> NoSchedule, work |-> EmptyDB,
     teamID |-> 0, userIDs |-> << >>, scheduleID |-> 0, i |-> 0, req |-> NoRequest]

RECURSIVE MaxID(_)
MaxID(rows) ==
    IF rows = {} THEN 0
    ELSE LET r == CHOOSE x \in rows : TRUE
             m == MaxID(rows \ {r})
         IN IF r.id > m THEN r.id ELSE m

\* id SERIAL PRIMARY KEY
NextID(rows) == MaxID(rows) + 1

Rollback_leak(committed, work) == work

\* defer tx.Rollback(ctx): what is committed after a call that returns an error
Rollback(committed, work) == committed

\* tx.Commit(ctx): what is committed after the call's success path
Commit(committed, work) == work

\* the position after the user loop's i-th round / after the loops
AfterUsers(schedule, i) ==
    IF i < Len(schedule.Members) THEN [pc |-> "user", i |-> i + 1]
    ELSE [pc |-> "schedule", i |-> 0]

AfterSchedule(schedule) ==
    IF Len(schedule.Days) > 0 THEN [pc |-> "day", i |-> 1]
    ELSE IF Len(schedule.Members) > 0 THEN [pc |-> "member", i |-> 1]
    ELSE [pc |-> "commit", i |-> 0]

AfterDays(schedule, i) ==
    IF i < Len(schedule.Days) THEN [pc |-> "day", i |-> i + 1]
    ELSE IF Len(schedule.Members) > 0 THEN [pc |-> "member", i |-> 1]
    ELSE [pc |-> "commit", i |-> 0]

AfterMembers_norotation(schedule, i) ==
    IF i < Len(schedule.Members) THEN [pc |-> "member", i |-> i + 1]
    ELSE [pc |-> "commit", i |-> 0]

\* if len(schedule.Members) > 0 { ... INSERT INTO rotations ... }
AfterMembers(schedule, i) ==
    IF i < Len(schedule.Members) THEN [pc |-> "member", i |-> i + 1]
    ELSE [pc |-> "rotation", i |-> 0]

firstUserID_last(userIDs, schedule) == userIDs[schedule.Members[Len(schedule.Members)]]

\* firstUserID := userIDs[schedule.Members[0]]
firstUserID(userIDs, schedule) == userIDs[schedule.Members[1]]

\* h.storage.AddSchedule(req.Team, schedule) as a statement, its result dropped,
\* then return c.NoContent(http.StatusCreated); 0 when no handler made the call
StatusCreated(req, err) == IF req.body = "none" THEN 0 ELSE 201

\* return fmt.Errorf(...): the deferred Rollback runs, the call returns the error
TxError(msg) ==
    /\ db' = Rollback(db, tx.work)
    /\ ret' = [NoRet EXCEPT !.op = "AddSchedule", !.team = tx.teamName, !.err = msg,
                            !.req = tx.req, !.status = StatusCreated(tx.req, msg)]
    /\ tx' = NoTx
    /\ UNCHANGED <<storage, data, mu, pc, local, added>>

TxStep_autocommit(next, work, teamID, userIDs, scheduleID) ==
    /\ tx' = [tx EXCEPT !.pc = next.pc, !.i = next.i, !.work = work, !.teamID = teamID,
                        !.userIDs = userIDs, !.scheduleID = scheduleID]
    /\ db' = work
    /\ UNCHANGED <<storage, data, mu, pc, local, ret, added>>

\* a statement run on tx succeeds: its rows are in the transaction's view only
TxStep(next, work, teamID, userIDs, scheduleID) ==
    /\ tx' = [tx EXCEPT !.pc = next.pc, !.i = next.i, !.work = work, !.teamID = teamID,
                        !.userIDs = userIDs, !.scheduleID = scheduleID]
    /\ UNCHANGED <<storage, data, mu, pc, local, db, ret, added>>

\* the call and s.db.Pool.Begin(ctx)
PostgresStorage_AddSchedule(teamName, schedule) ==
    /\ storage = "postgres"
    /\ tx.pc = "idle"
    /\ Cardinality(db.schedules) < MaxSchedules
    /\ tx' = [NoTx EXCEPT !.pc = "team", !.teamName = teamName, !.schedule = schedule,
                          !.work = db]
    /\ UNCHANGED <<storage, data, mu, pc, local, db, ret, added>>

\* INSERT INTO teams (name) ... ON CONFLICT (name) DO UPDATE ... RETURNING id
AddSchedule_UpsertTeam ==
    /\ tx.pc = "team"
    /\ LET old == {t \in tx.work.teams : t.name = tx.teamName}
           id == IF old = {} THEN NextID(tx.work.teams) ELSE (CHOOSE t \in old : TRUE).id
           teams == tx.work.teams \cup {[id |-> id, name |-> tx.teamName]}
       IN TxStep(AfterUsers(tx.schedule, 0), [tx.work EXCEPT !.teams = teams],
                 id, tx.userIDs, tx.scheduleID)

\* INSERT INTO users (username, email) ... ON CONFLICT (username) DO UPDATE ... RETURNING id
AddSchedule_UpsertUser ==
    /\ tx.pc = "user"
    /\ LET member == tx.schedule.Members[tx.i]
           old == {u \in tx.work.users : u.username = member}
           id == IF old = {} THEN NextID(tx.work.users) ELSE (CHOOSE u \in old : TRUE).id
           users == tx.work.users \cup {[id |-> id, username |-> member]}
           ids == [m \in DOMAIN tx.userIDs \cup {member} |->
                       IF m = member THEN id ELSE tx.userIDs[m]]
       IN TxStep([pc |-> "team_member", i |-> tx.i], [tx.work EXCEPT !.users = users],
                 tx.teamID, ids, tx.scheduleID)

\* INSERT INTO team_members ... ON CONFLICT (team_id, user_id) DO NOTHING
AddSchedule_InsertTeamMember ==
    /\ tx.pc = "team_member"
    /\ LET row == [team_id |-> tx.teamID, user_id |-> tx.userIDs[tx.schedule.Members[tx.i]]]
       IN TxStep(AfterUsers(tx.schedule, tx.i),
                 [tx.work EXCEPT !.team_members = @ \cup {row}],
                 tx.teamID, tx.userIDs, tx.scheduleID)

\* INSERT INTO schedules ... RETURNING id, under UNIQUE (team_id, name)
AddSchedule_InsertSchedule ==
    /\ tx.pc = "schedule"
    /\ IF \E r \in tx.work.schedules : r.team_id = tx.teamID /\ r.name = tx.schedule.Name
       THEN TxError("failed to insert schedule")
       ELSE LET id == NextID(tx.work.schedules)
                row == [id |-> id, team_id |-> tx.teamID, name |-> tx.schedule.Name,
                        start_time |-> Format150405(tx.schedule.Start),
                        end_time |-> Format150405(tx.schedule.End)]
            IN TxStep(AfterSchedule(tx.schedule),
                      [tx.work EXCEPT !.schedules = @ \cup {row}],
                      tx.teamID, tx.userIDs, id)

\* INSERT INTO schedule_days, under PRIMARY KEY (schedule_id, day_of_week) and the CHECK
AddSchedule_InsertDay ==
    /\ tx.pc = "day"
    /\ LET row == [schedule_id |-> tx.scheduleID, day_of_week |-> tx.schedule.Days[tx.i]]
       IN IF row \in tx.work.schedule_days \/ row.day_of_week \notin Weekdays
          THEN TxError("failed to insert schedule day")
          ELSE TxStep(AfterDays(tx.schedule, tx.i),
                      [tx.work EXCEPT !.schedule_days = @ \cup {row}],
                      tx.teamID, tx.userIDs, tx.scheduleID)

MemberConflict_position(rows, row) ==
    \E r \in rows : r.schedule_id = row.schedule_id /\ r.position = row.position

\* UNIQUE (schedule_id, user_id) and UNIQUE (schedule_id, position) refuse the row
MemberConflict(rows, row) ==
    \E r \in rows :
        /\ r.schedule_id = row.schedule_id
        /\ (r.user_id = row.user_id \/ r.position = row.position)

\* INSERT INTO schedule_members (schedule_id, user_id, position)
AddSchedule_InsertMember ==
    /\ tx.pc = "member"
    /\ LET row == [id |-> NextID(tx.work.schedule_members), schedule_id |-> tx.scheduleID,
                   user_id |-> tx.userIDs[tx.schedule.Members[tx.i]], position |-> tx.i - 1]
       IN IF MemberConflict(tx.work.schedule_members, row)
          THEN TxError("failed to insert schedule member")
          ELSE TxStep(AfterMembers(tx.schedule, tx.i),
                      [tx.work EXCEPT !.schedule_members = @ \cup {row}],
                      tx.teamID, tx.userIDs, tx.scheduleID)

\* INSERT INTO rotations (schedule_id, current_user_id, current_position, ...)
AddSchedule_InsertRotation ==
    /\ tx.pc = "rotation"
    /\ LET row == [id |-> NextID(tx.work.rotations), schedule_id |-> tx.scheduleID,
                   current_user_id |-> firstUserID(tx.userIDs, tx.schedule),
                   current_position |-> 0]
       IN TxStep([pc |-> "commit", i |-> 0], [tx.work EXCEPT !.rotations = @ \cup {row}],
                 tx.teamID, tx.userIDs, tx.scheduleID)

\* tx.Commit(ctx) and return nil
AddSchedule_Commit ==
    /\ tx.pc = "commit"
    /\ db' = Commit(db, tx.work)
    /\ ret' = [NoRet EXCEPT !.op = "AddSchedule", !.team = tx.teamName,
                            !.req = tx.req, !.status = StatusCreated(tx.req, "nil")]
    /\ added' = [added EXCEPT ![tx.teamName] = Append(@, tx.schedule)]
    /\ tx' = NoTx
    /\ UNCHANGED <<storage, data, mu, pc, local>>

\* the statement the call is at fails in the database (connection lost, ...)
AddSchedule_Fault ==
    /\ tx.pc # "idle"
    /\ TxError("store fault")

\* the rows of a result set in any order (a SELECT without ORDER BY)
Orders(rows) ==
    {f \in [1..Cardinality(rows) -> rows] : \A i, j \in DOMAIN f : i # j => f[i] # f[j]}

\* ORDER BY day_of_week
RECURSIVE SortedDays(_)
SortedDays(days) ==
    IF days = {} THEN << >>
    ELSE LET d == CHOOSE x \in days : \A y \in days : x <= y
         IN <<d>> \o SortedDays(days \ {d})

\* SELECT u.username FROM schedule_members sm JOIN users u ... ORDER BY sm.position
RECURSIVE MembersByPosition(_, _)
MembersByPosition(rows, users) ==
    IF rows = {} THEN << >>
    ELSE LET r == CHOOSE x \in rows : \A y \in rows : x.position <= y.position
             names == {u.username : u \in {v \in users : v.id = r.user_id}}
         IN (IF names = {} THEN << >> ELSE <<CHOOSE n \in names : TRUE>>)
                \o MembersByPosition(rows \ {r}, users)

\* rows.Scan of a TIME column into a time.Time
ScanTime(hms) == [sec |-> hms[1] * 3600 + hms[2] * 60 + hms[3], nsec |-> 0, off |-> 0]

\* the Schedule GetTeam builds from one row of schedules
ScanSchedule(d, row) ==
    Schedule(row.name,
             MembersByPosition({m \in d.schedule_members : m.schedule_id = row.id}, d.users),
             SortedDays({sd.day_of_week : sd \in {x \in d.schedule_days : x.schedule_id = row.id}}),
             ScanTime(row.start_time), ScanTime(row.end_time))

\* SELECT id FROM teams WHERE name = $1
TeamRows(d, teamName) == {t \in d.teams : t.name = teamName}

\* every (Team, bool) PostgresStorage.GetTeam can return on the committed rows
PostgresTeam(d, teamName) ==
    IF TeamRows(d, teamName) = {} THEN {[Schedules |-> << >>, ok |-> FALSE]}
    ELSE LET teamID == (CHOOSE t \in TeamRows(d, teamName) : TRUE).id
             rows == {r \in d.schedules : r.team_id = teamID}
         IN {[Schedules |-> [k \in DOMAIN o |-> ScanSchedule(d, o[k])], ok |-> TRUE] :
                o \in Orders(rows)}

PostgresInWindow_afterStart(row, timeOfDay) ==
    ~TimeLE(timeOfDay, row.start_time) /\ TimeLE(timeOfDay, row.end_time)

\* s.start_time <= $3::time AND s.end_time >= $3::time
PostgresInWindow(row, timeOfDay) ==
    TimeLE(row.start_time, timeOfDay) /\ TimeLE(timeOfDay, row.end_time)

\* schedules s JOIN schedule_days sd JOIN rotations r LEFT JOIN users u WHERE ...
\* (current_user_id always names a stored user, so the LEFT JOIN finds one)
OncallJoin(d, teamID, dayOfWeek, timeOfDay) ==
    LET joined == {j \in d.schedules \X d.schedule_days \X d.rotations \X d.users :
                      /\ j[1].id = j[2].schedule_id
                      /\ j[1].id = j[3].schedule_id
                      /\ j[3].current_user_id = j[4].id
                      /\ j[1].team_id = teamID
                      /\ j[2].day_of_week = dayOfWeek
                      /\ PostgresInWindow(j[1], timeOfDay)}
    IN {[schedule_id |-> j[1].id, current_user_id |-> j[3].current_user_id,
         username |-> j[4].username] : j \in joined}

\* every (string, bool) PostgresStorage.GetCurrentOncall can return: LIMIT 1 takes any row
PostgresOncall(d, teamName, at) ==
    IF TeamRows(d, teamName) = {} THEN {[oncall |-> "", ok |-> FALSE, via |-> 0]}
    ELSE LET teamID == (CHOOSE t \in TeamRows(d, teamName) : TRUE).id
             rows == OncallJoin(d, teamID, Weekday(at), Format150405(at))
         IN IF rows = {} THEN {[oncall |-> "", ok |-> FALSE, via |-> 0]}
            ELSE {[oncall |-> j.username, ok |-> TRUE, via |-> j.schedule_id] : j \in rows}

PostgresStorage_GetTeam(teamName) ==
    /\ storage = "postgres"
    /\ tx.pc = "idle"
    /\ \E r \in PostgresTeam(db, teamName) :
           ret' = [NoRet EXCEPT !.op = "GetTeam", !.team = teamName,
                                !.Schedules = r.Schedules, !.ok = r.ok]
    /\ UNCHANGED <<storage, data, mu, pc, local, db, tx, added>>

PostgresStorage_GetCurrentOncall(teamName, at) ==
    /\ storage = "postgres"
    /\ tx.pc = "idle"
    /\ \E r \in PostgresOncall(db, teamName, at) :
           ret' = [NoRet EXCEPT !.op = "GetCurrentOncall", !.team = teamName, !.at = at,
                                !.oncall = r.oncall, !.ok = r.ok, !.via = r.via]
    /\ UNCHANGED <<storage, data, mu, pc, local, db, tx, added>>

(***************************************************************************)
(* Handler.GetSchedule (GET /schedule?team=..&time=..)                     *)
(***************************************************************************)
\* the time query parameter: absent, not RFC3339, or a date, clock and offset
TimeParams ==
    {[kind |-> k, f |-> <<0, 0, 0, 0>>] : k \in {"missing", "invalid"}}
        \cup {[kind |-> "rfc3339", f |-> f] : f \in InstantFields}

\* time.Parse(time.RFC3339, timeStr)
ParseRFC3339(p) == At(p.f[1], p.f[2], p.f[3], p.f[4])

\* contains(schedule.Days, askTime.Weekday())
contains(days, day) == \E i \in 1..Len(days) : days[i] = day

startTime(schedule, askTime) ==
    Date(Day(askTime), Hour(schedule.Start), Minute(schedule.Start), 0, 0, askTime.off)

endTime(schedule, askTime) ==
    Date(Day(askTime), Hour(schedule.End), Minute(schedule.End), 0, 0, askTime.off)

\* (askTime.After(startTime) || askTime.Equal(startTime)) &&
\* (askTime.Before(endTime) || askTime.Equal(endTime))
HandlerInWindow(schedule, askTime) ==
    /\ After(askTime, startTime(schedule, askTime)) \/ Equal(askTime, startTime(schedule, askTime))
    /\ Before(askTime, endTime(schedule, askTime)) \/ Equal(askTime, endTime(schedule, askTime))

\* for _, schedule := range teamData.Schedules { ... }
RECURSIVE HandlerScan(_, _, _)
HandlerScan(scheds, i, askTime) ==
    IF i > Len(scheds)
    THEN [status |-> 404, body |-> << >>, json |-> "error",
          err |-> "no schedule found for the given time"]
    ELSE IF contains(scheds[i].Days, Weekday(askTime)) /\ HandlerInWindow(scheds[i], askTime)
    THEN [status |-> 200, body |-> scheds[i].Members, json |-> "array", err |-> "nil"]
    ELSE HandlerScan(scheds, i + 1, askTime)

\* h.storage.GetTeam(team)
StorageGetTeam(team) ==
    IF storage = "memory"
    THEN {[Schedules |-> MapGet(data, team).Schedules, ok |-> team \in DOMAIN data]}
    ELSE PostgresTeam(db, team)

Handler_GetSchedule(team, timeStr) ==
    /\ tx.pc = "idle"
    /\ \A g \in DOMAIN pc : pc[g] = "idle"
    /\ \E teamData \in StorageGetTeam(team) :
        LET r == IF team = ""
                 THEN [status |-> 400, body |-> << >>, json |-> "error",
                       err |-> "team query parameter is required"]
                 ELSE IF timeStr.kind = "missing"
                 THEN [status |-> 400, body |-> << >>, json |-> "error",
                       err |-> "time query parameter is required"]
                 ELSE IF timeStr.kind = "invalid"
                 THEN [status |-> 400, body |-> << >>, json |-> "error",
                       err |-> "invalid time format, use RFC3339 format"]
                 ELSE IF ~teamData.ok
                 THEN [status |-> 404, body |-> << >>, json |-> "error", err |-> "team not found"]
                 ELSE HandlerScan(teamData.Schedules, 1, ParseRFC3339(timeStr))
        IN ret' = [NoRet EXCEPT !.op = "GET /schedule", !.team = team,
                                !.at = IF timeStr.kind = "rfc3339" THEN ParseRFC3339(timeStr)
                                       ELSE NoInstant,
                                !.status = r.status, !.body = r.body, !.json = r.json,
                                !.err = r.err]
    /\ UNCHANGED <<storage, data, mu, pc, local, db, tx, added>>

(***************************************************************************)
(* Handler.CreateSchedule (POST /schedule)                                 *)
(***************************************************************************)
\* time.Weekday.String()
WeekdayNames ==
    <<<<"S", "u", "n", "d", "a", "y">>,
      <<"M", "o", "n", "d", "a", "y">>,
      <<"T", "u", "e", "s", "d", "a", "y">>,
      <<"W", "e", "d", "n", "e", "s", "d", "a", "y">>,
      <<"T", "h", "u", "r", "s", "d", "a", "y">>,
      <<"F", "r", "i", "d", "a", "y">>,
      <<"S", "a", "t", "u", "r", "d", "a", "y">>>>

Upper ==
    <<"A", "B", "C", "D", "E", "F", "G", "H", "I", "J", "K", "L", "M",
      "N", "O", "P", "Q", "R", "S", "T", "U", "V", "W", "X", "Y", "Z">>

Lower ==
    <<"a", "b", "c", "d", "e", "f", "g", "h", "i", "j", "k", "l", "m",
      "n", "o", "p", "q", "r", "s", "t", "u", "v", "w", "x", "y", "z">>

\* the orbit of a rune under unicode.SimpleFold, named by its smallest lower-case
\* member: A..Z fold with a..z, U+017F with s and S, U+212A with k and K
FoldRune(r) ==
    IF \E i \in 1..26 : Upper[i] = r THEN Lower[CHOOSE i \in 1..26 : Upper[i] = r]
    ELSE IF r = "U+017F" THEN "s"
    ELSE IF r = "U+212A" THEN "k"
    ELSE r

EqualFold_exact(s, t) == s = t

\* strings.EqualFold(s, t): equal rune by rune under simple case folding
EqualFold(s, t) ==
    /\ Len(s) = Len(t)
    /\ \A i \in 1..Len(s) : FoldRune(s[i]) = FoldRune(t[i])

\* for wd := time.Sunday; wd <= time.Saturday; wd++ { if strings.EqualFold(day, wd.String()) ...
parseWeekday(day) ==
    LET hits == {wd \in Weekdays : EqualFold(day, WeekdayNames[wd + 1])}
    IN IF hits = {} THEN [day |-> 0, err |-> "invalid weekday: %s"]
       ELSE [day |-> CHOOSE wd \in hits : \A o \in hits : wd <= o, err |-> "nil"]

\* time.Parse(time.Kitchen, text), layout "3:04PM": an hour 0..12, a minute
\* 0..59, AM or PM; 12AM is hour 0 and PM adds 12 to an hour below 12
ParseKitchen(text) ==
    IF \/ Len(text) # 3
       \/ text[1] \notin 0..12
       \/ text[2] \notin 0..59
       \/ text[3] \notin {"AM", "PM"}
    THEN [t |-> NoInstant, err |-> "parsing time"]
    ELSE LET hour == IF text[3] = "PM" /\ text[1] < 12 THEN text[1] + 12
                     ELSE IF text[3] = "AM" /\ text[1] = 12 THEN 0
                     ELSE text[1]
         IN [t |-> Kitchen(hour, text[2]), err |-> "nil"]

validateRequest_members(req) ==
    IF req.Team = "" THEN "team is required"
    ELSE IF Len(req.Days) = 0 THEN "at least one day is required"
    ELSE IF req.Start = << >> THEN "start time is required"
    ELSE IF req.End = << >> THEN "end time is required"
    ELSE "nil"

validateRequest_daysfirst(req) ==
    IF req.Team = "" THEN "team is required"
    ELSE IF Len(req.Days) = 0 THEN "at least one day is required"
    ELSE IF Len(req.Members) = 0 THEN "at least one member is required"
    ELSE IF req.Start = << >> THEN "start time is required"
    ELSE IF req.End = << >> THEN "end time is required"
    ELSE "nil"

validateRequest(req) ==
    IF req.Team = "" THEN "team is required"
    ELSE IF Len(req.Members) = 0 THEN "at least one member is required"
    ELSE IF Len(req.Days) = 0 THEN "at least one day is required"
    ELSE IF req.Start = << >> THEN "start time is required"
    ELSE IF req.End = << >> THEN "end time is required"
    ELSE "nil"

\* fmt.Sprintf("invalid day: %s", d): the format, and d as the response's arg
InvalidDay(d) == [status |-> 400, err |-> "invalid day: %s", arg |-> d, schedule |-> NoSchedule]

\* CreateSchedule up to the call of the store: the 400 it answers, or status 0
\* and the storage.Schedule it has built
BuildSchedule(req) ==
    LET Bad(msg) == [status |-> 400, err |-> msg, arg |-> << >>, schedule |-> NoSchedule]
        days == [i \in DOMAIN req.Days |-> parseWeekday(req.Days[i])]
        wrong == {i \in DOMAIN req.Days : days[i].err # "nil"}
        start == ParseKitchen(req.Start)
        end == ParseKitchen(req.End)
    IN IF req.body = "malformed" THEN Bad("invalid request body")
       ELSE IF validateRequest(req) # "nil" THEN Bad(validateRequest(req))
       ELSE IF wrong # {}
       THEN InvalidDay(req.Days[CHOOSE i \in wrong : \A j \in wrong : i <= j])
       ELSE IF start.err # "nil" THEN Bad("invalid start time format, use '3:04PM' format")
       ELSE IF end.err # "nil" THEN Bad("invalid end time format, use '3:04PM' format")
       ELSE IF ~Before(start.t, end.t) THEN Bad("start time must be before end time")
       ELSE [status |-> 0, err |-> "nil", arg |-> << >>,
             schedule |-> Schedule(req.Name, req.Members, [i \in DOMAIN days |-> days[i].day],
                                   start.t, end.t)]

\* with MemoryStorage the store's call is one step; with PostgresStorage the
\* request waits while the transaction's statements run and is answered by
\* the step that ends the call
Handler_CreateSchedule(req) ==
    /\ tx.pc = "idle"
    /\ \A g \in DOMAIN pc : pc[g] = "idle"
    /\ LET b == BuildSchedule(req)
       IN IF b.status = 400
          THEN /\ ret' = [NoRet EXCEPT !.op = "POST /schedule", !.team = req.Team,
                                       !.status = 400, !.err = b.err, !.body = b.arg,
                                       !.json = "error", !.req = req]
               /\ UNCHANGED <<storage, data, mu, pc, local, db, tx, added>>
          ELSE IF storage = "memory"
          THEN /\ SumLen(data, DOMAIN data) < MaxSchedules
               /\ data' = MapSet(data, req.Team,
                                 AppendSchedule(MapGet(data, req.Team), b.schedule))
               /\ ret' = [NoRet EXCEPT !.op = "AddSchedule", !.team = req.Team, !.req = req,
                                       !.status = StatusCreated(req, "nil")]
               /\ added' = [added EXCEPT ![req.Team] = Append(@, b.schedule)]
               /\ UNCHANGED <<storage, mu, pc, local, db, tx>>
          ELSE /\ Cardinality(db.schedules) < MaxSchedules
               /\ tx' = [NoTx EXCEPT !.pc = "team", !.teamName = req.Team,
                                     !.schedule = b.schedule, !.work = db, !.req = req]
               /\ UNCHANGED <<storage, data, mu, pc, local, db, ret, added>>

(***************************************************************************)
(* MemoryStorage under concurrent callers: every goroutine makes one call  *)
(* and takes it a statement at a time.  Goroutines 1..NumWriters call      *)
(* AddSchedule, the others GetTeam or GetCurrentOncall.                    *)
(***************************************************************************)
Writers == 1..NumWriters

Readers == (NumWriters + 1)..(NumWriters + 2)

Goroutines == Writers \cup Readers

NoLocal ==
    [team |-> "", schedule |-> NoSchedule, at |-> NoInstant, t |-> [Schedules |-> << >>],
     out |-> NoRet]

\* the calls the concurrent callers make
ConcurrentAdds == Teams \X {Weekday1, Backup}

ConcurrentInstants == {At(20206, 36000, 0, 0)}

CanLock_free(m) == TRUE

\* sync.RWMutex: Lock waits until no writer and no reader holds the mutex
CanLock(m) == m.w = 0 /\ m.r = {}

CanRLock_free(m) == TRUE

\* sync.RWMutex: RLock waits until no writer holds the mutex
CanRLock(m) == m.w = 0

Goto(g, label) == pc' = [pc EXCEPT ![g] = label]

go_AddSchedule(g, team, schedule) ==
    /\ g \in Writers
    /\ pc[g] = "idle"
    /\ Goto(g, "Lock")
    /\ local' = [local EXCEPT ![g] = [NoLocal EXCEPT !.team = team, !.schedule = schedule]]
    /\ UNCHANGED <<storage, data, mu, db, tx, ret, added>>

\* s.mu.Lock()
AddSchedule_Lock(g) ==
    /\ pc[g] = "Lock"
    /\ CanLock(mu)
    /\ mu' = [mu EXCEPT !.w = g]
    /\ Goto(g, "get")
    /\ UNCHANGED <<storage, data, local, db, tx, ret, added>>

\* t := s.data[team]
AddSchedule_Get(g) ==
    /\ pc[g] = "get"
    /\ local' = [local EXCEPT ![g].t = MapGet(data, local[g].team)]
    /\ Goto(g, "append")
    /\ UNCHANGED <<storage, data, mu, db, tx, ret, added>>

\* t.Schedules = append(t.Schedules, schedule)
AddSchedule_Append(g) ==
    /\ pc[g] = "append"
    /\ local' = [local EXCEPT ![g].t = AppendSchedule(local[g].t, local[g].schedule)]
    /\ Goto(g, "set")
    /\ UNCHANGED <<storage, data, mu, db, tx, ret, added>>

\* s.data[team] = t
AddSchedule_Set(g) ==
    /\ pc[g] = "set"
    /\ data' = MapSet(data, local[g].team, local[g].t)
    /\ Goto(g, "Unlock")
    /\ UNCHANGED <<storage, mu, local, db, tx, ret, added>>

\* return nil, and the deferred s.mu.Unlock()
AddSchedule_Unlock(g) ==
    /\ pc[g] = "Unlock"
    /\ mu' = [mu EXCEPT !.w = 0]
    /\ Goto(g, "done")
    /\ local' = [local EXCEPT ![g].out = [NoRet EXCEPT !.op = "AddSchedule",
                                                       !.team = local[g].team]]
    /\ added' = [added EXCEPT ![local[g].team] = Append(@, local[g].schedule)]
    /\ UNCHANGED <<storage, data, db, tx, ret>>

go_GetTeam(g, team) ==
    /\ g \in Readers
    /\ pc[g] = "idle"
    /\ Goto(g, "RLock")
    /\ local' = [local EXCEPT ![g] = [NoLocal EXCEPT !.team = team,
                                                     !.out = [NoRet EXCEPT !.op = "GetTeam"]]]
    /\ UNCHANGED <<storage, data, mu, db, tx, ret, added>>

go_GetCurrentOncall(g, team, at) ==
    /\ g \in Readers
    /\ pc[g] = "idle"
    /\ Goto(g, "RLock")
    /\ local' = [local EXCEPT ![g] = [NoLocal EXCEPT !.team = team, !.at = at,
                                          !.out = [NoRet EXCEPT !.op = "GetCurrentOncall"]]]
    /\ UNCHANGED <<storage, data, mu, db, tx, ret, added>>

\* s.mu.RLock()
Read_RLock(g) ==
    /\ pc[g] = "RLock"
    /\ CanRLock(mu)
    /\ mu' = [mu EXCEPT !.r = @ \cup {g}]
    /\ Goto(g, "read")
    /\ UNCHANGED <<storage, data, local, db, tx, ret, added>>

\* t, ok := s.data[team], and in GetCurrentOncall the loop over t.Schedules
Read_Body(g) ==
    /\ pc[g] = "read"
    /\ LET team == local[g].team
           r == MemoryOncall(data, team, local[g].at)
       IN local' = [local EXCEPT ![g].t = MapGet(data, team),
                       ![g].out = IF local[g].out.op = "GetTeam"
                                  THEN [@ EXCEPT !.team = team,
                                                 !.Schedules = MapGet(data, team).Schedules,
                                                 !.ok = (team \in DOMAIN data)]
                                  ELSE [@ EXCEPT !.team = team, !.at = local[g].at,
                                                 !.oncall = r.oncall, !.ok = r.ok,
                                                 !.via = r.via]]
    /\ data' = MapRead(data, local[g].team)
    /\ Goto(g, "RUnlock")
    /\ UNCHANGED <<storage, mu, db, tx, ret, added>>

RUnlock_forgotten(m, g) == m

\* s.mu.RUnlock()
RUnlock(m, g) == [m EXCEPT !.r = @ \ {g}]

\* the return, and the deferred s.mu.RUnlock()
Read_RUnlock(g) ==
    /\ pc[g] = "RUnlock"
    /\ mu' = RUnlock(mu, g)
    /\ Goto(g, "done")
    /\ UNCHANGED <<storage, data, local, db, tx, ret, added>>

Init ==
    /\ storage \in {"memory", "postgres"}
    /\ data = NewMemoryStorage
    /\ mu = [w |-> 0, r |-> {}]
    /\ pc = [g \in Goroutines |-> "idle"]
    /\ local = [g \in Goroutines |-> NoLocal]
    /\ db = EmptyDB
    /\ tx = NoTx
    /\ ret = NoRet
    /\ added = [t \in Teams |-> << >>]

Next ==
    \/ \E a \in Adds : MemoryStorage_AddSchedule(a[1], a[2])
    \/ \E team \in Teams : MemoryStorage_GetTeam(team)
    \/ \E team \in Teams, at \in Instants : MemoryStorage_GetCurrentOncall(team, at)
    \/ \E a \in Adds : PostgresStorage_AddSchedule(a[1], a[2])
    \/ AddSchedule_UpsertTeam
    \/ AddSchedule_UpsertUser
    \/ AddSchedule_InsertTeamMember
    \/ AddSchedule_InsertSchedule
    \/ AddSchedule_InsertDay
    \/ AddSchedule_InsertMember
    \/ AddSchedule_InsertRotation
    \/ AddSchedule_Commit
    \/ AddSchedule_Fault
    \/ \E team \in Teams : PostgresStorage_GetTeam(team)
    \/ \E team \in Teams, at \in Instants : PostgresStorage_GetCurrentOncall(team, at)
    \/ \E team \in Teams \cup {""}, timeStr \in TimeParams : Handler_GetSchedule(team, timeStr)

Spec == Init /\ [][Next]_vars

\* storage := NewMemoryStorage() shared by the goroutines
InitConcurrent == Init /\ storage = "memory"

NextConcurrent ==
    \/ \E g \in Writers, a \in ConcurrentAdds : go_AddSchedule(g, a[1], a[2])
    \/ \E g \in Writers : AddSchedule_Lock(g)
    \/ \E g \in Writers : AddSchedule_Get(g)
    \/ \E g \in Writers : AddSchedule_Append(g)
    \/ \E g \in Writers : AddSchedule_Set(g)
    \/ \E g \in Writers : AddSchedule_Unlock(g)
    \/ \E g \in Readers, team \in Teams : go_GetTeam(g, team)
    \/ \E g \in Readers, team \in Teams, at \in ConcurrentInstants : go_GetCurrentOncall(g, team, at)
    \/ \E g \in Readers : Read_RLock(g)
    \/ \E g \in Readers : Read_Body(g)
    \/ \E g \in Readers : Read_RUnlock(g)

SpecConcurrent == InitConcurrent /\ [][NextConcurrent]_vars

\* the statements of goroutine g
GoStep(g) ==
    \/ AddSchedule_Lock(g)
    \/ AddSchedule_Get(g)
    \/ AddSchedule_Append(g)
    \/ AddSchedule_Set(g)
    \/ AddSchedule_Unlock(g)
    \/ Read_RLock(g)
    \/ Read_Body(g)
    \/ Read_RUnlock(g)

\* the Go scheduler runs every goroutine that can take a step: one that is not
\* blocked on the mutex, or whose Lock or RLock can be granted from now on
FairAdds == {<<"ops", Weekday1>>, <<"dev", Backup>>}

\* the same goroutines making fewer different calls: which call returns does
\* not depend on what is stored
NextFair ==
    \/ \E g \in Writers, a \in FairAdds : go_AddSchedule(g, a[1], a[2])
    \/ \E g \in Readers : go_GetTeam(g, "ops")
    \/ \E g \in Readers, at \in ConcurrentInstants : go_GetCurrentOncall(g, "ops", at)
    \/ \E g \in Goroutines : GoStep(g)

SpecConcurrentFair ==
    InitConcurrent /\ [][NextFair]_vars /\ \A g \in Goroutines : WF_vars(GoStep(g))

\* the service as main.go runs it: the store is reached through the two routes
NextHTTP ==
    \/ \E req \in Requests : Handler_CreateSchedule(req)
    \/ AddSchedule_UpsertTeam
    \/ AddSchedule_UpsertUser
    \/ AddSchedule_InsertTeamMember
    \/ AddSchedule_InsertSchedule
    \/ AddSchedule_InsertDay
    \/ AddSchedule_InsertMember
    \/ AddSchedule_InsertRotation
    \/ AddSchedule_Commit
    \/ AddSchedule_Fault
    \/ \E team \in Teams \cup {""}, timeStr \in TimeParams : Handler_GetSchedule(team, timeStr)

SpecHTTP == Init /\ [][NextHTTP]_vars

(***************************************************************************)
(* Properties                                                              *)
(***************************************************************************)
Range(s) == {s[i] : i \in DOMAIN s}

\* the local time of day of an instant, in seconds
Clock(t) == LocalSec(t) % 86400

\* T's weekday is one of S's days
OnDay(S, T) == \E i \in 1..Len(S.Days) : S.Days[i] = Weekday(T)

\* the schedules the running store holds for a team
Stored(team) ==
    IF storage = "memory" THEN Range(MapGet(data, team).Schedules)
    ELSE {ScanSchedule(db, r) :
            r \in {x \in db.schedules : \E t \in TeamRows(db, team) : x.team_id = t.id}}

\* S is a 09:00-17:00 schedule with members that is active on T's weekday
NineToFive(S) == S.Start = Kitchen(9, 0) /\ S.End = Kitchen(17, 0)

\* C1: in both stores, with a 09:00-17:00 schedule that has members and is active on
\* the instant's weekday, the instants 09:00:00 and 17:00:00 resolve to a member, and
\* 08:59 and 17:01 are not found (closed interval [start, end]).
C1_ClosedInterval ==
    ret.op = "GetCurrentOncall" =>
        LET active == {S \in Stored(ret.team) :
                          NineToFive(S) /\ Len(S.Members) > 0 /\ OnDay(S, ret.at)}
        IN /\ (active # {} /\ ret.at.nsec = 0 /\ Clock(ret.at) \in {32400, 61200})
                  => ret.ok /\ \E S \in Stored(ret.team) : ret.oncall \in Range(S.Members)
           /\ ((\A S \in Stored(ret.team) : NineToFive(S)) /\ Clock(ret.at) \in {32340, 61260})
                  => ~ret.ok

\* C2: GetCurrentOncall never resolves through a schedule whose days do not hold the
\* instant's weekday; when no schedule of the team holds it the result is not found
\* and GET /schedule answers 404.
C2_DayGating ==
    /\ (ret.op = "GetCurrentOncall" /\ ret.ok /\ storage = "memory")
           => /\ ret.via \in 1..Len(MapGet(data, ret.team).Schedules)
              /\ OnDay(MapGet(data, ret.team).Schedules[ret.via], ret.at)
    /\ (ret.op = "GetCurrentOncall" /\ ret.ok /\ storage = "postgres")
           => [schedule_id |-> ret.via, day_of_week |-> Weekday(ret.at)] \in db.schedule_days
    /\ (ret.op = "GetCurrentOncall" /\ \A S \in Stored(ret.team) : ~OnDay(S, ret.at))
           => ~ret.ok /\ ret.oncall = "" /\ ret.err = "nil"
    /\ (ret.op = "GET /schedule" /\ ret.status # 400
            /\ \A S \in Stored(ret.team) : ~OnDay(S, ret.at))
           => ret.status = 404

\* a team with a schedule whose window holds the instant, asked on a day outside its days
C2_Witness ==
    /\ ret.op = "GetCurrentOncall"
    /\ ~ret.ok
    /\ \A S \in Stored(ret.team) : ~OnDay(S, ret.at)
    /\ \E S \in Stored(ret.team) :
           /\ Len(S.Members) > 0
           /\ Clock(S.Start) < Clock(ret.at)
           /\ Clock(ret.at) < Clock(S.End)

\* C3: in the Volatile store GetTeam finds a team once an AddSchedule for it has
\* returned, its list holds every added schedule unchanged, and after k additions the
\* list has exactly k entries.
C3_ReadAfterWriteGetTeam ==
    (storage = "memory" /\ ret.op = "GetTeam") =>
        /\ ret.ok = (added[ret.team] # << >>)
        /\ Len(ret.Schedules) = Len(added[ret.team])
        /\ \A i \in 1..Len(added[ret.team]) :
               \E j \in 1..Len(ret.Schedules) :
                   /\ ret.Schedules[j] = added[ret.team][i]
                   /\ ret.Schedules[j].Name = added[ret.team][i].Name
                   /\ ret.Schedules[j].Members = added[ret.team][i].Members

\* GetTeam after two additions for the team
C3_Witness ==
    /\ storage = "memory"
    /\ ret.op = "GetTeam"
    /\ ret.ok
    /\ Len(added[ret.team]) = 2
    /\ Len(ret.Schedules) = 2

\* T is on one of S's days and inside the closed window [S.Start, S.End]
InsideClosed(S, T) ==
    /\ OnDay(S, T)
    /\ Clock(S.Start) <= Clock(T)
    /\ Clock(T) < Clock(S.End) \/ (Clock(T) = Clock(S.End) /\ T.nsec = 0)

\* C4: after AddSchedule(team, S) has returned nil, GetCurrentOncall(team, T) for any T
\* on S's days and inside S's window is found and names a member of S, whatever else
\* the team already holds.
C4_ReadAfterWriteResolves ==
    ret.op = "GetCurrentOncall" =>
        \A i \in 1..Len(added[ret.team]) :
            LET S == added[ret.team][i]
            IN (Len(S.Members) > 0 /\ InsideClosed(S, ret.at))
                   => ret.ok /\ ret.oncall \in Range(S.Members)

\* C5: in the Volatile store a resolved GetCurrentOncall names members[0] of the
\* schedule it resolved through, leaves the store as it was, and answers a repeated
\* query as it answered before.
C5_StatelessFirstMember ==
    [][(storage = "memory" /\ ret'.op = "GetCurrentOncall") =>
          /\ data' = data
          /\ ret'.ok =>
                LET scheds == MapGet(data, ret'.team).Schedules
                IN /\ ret'.via \in 1..Len(scheds)
                   /\ Len(scheds[ret'.via].Members) > 0
                   /\ ret'.oncall = scheds[ret'.via].Members[1]
          /\ (ret.op = "GetCurrentOncall" /\ ret.team = ret'.team /\ ret.at = ret'.at)
                => ret' = ret]_vars

\* a resolved query through a schedule of two members
C5_Witness ==
    /\ storage = "memory"
    /\ ret.op = "GetCurrentOncall"
    /\ ret.ok
    /\ Len(MapGet(data, ret.team).Schedules[ret.via].Members) = 2
    /\ ret.oncall = MapGet(data, ret.team).Schedules[ret.via].Members[1]

\* T is on one of S's days and its HH:MM:SS lies between S's start and end
InsideSeconds(S, T) == OnDay(S, T) /\ Clock(S.Start) <= Clock(T) /\ Clock(T) <= Clock(S.End)

\* C6 as stated: in the Durable store GetCurrentOncall at any instant matching a
\* created schedule with members returns that schedule's members[0].
C6_FreshReturnsFirst ==
    (storage = "postgres" /\ ret.op = "GetCurrentOncall") =>
        \A i \in 1..Len(added[ret.team]) :
            LET S == added[ret.team][i]
            IN (Len(S.Members) > 0 /\ InsideClosed(S, ret.at))
                   => ret.ok /\ ret.oncall = S.Members[1]

\* C6: every rotation row is at position 0 with the schedule's members[0] as current
\* user; GetCurrentOncall at an instant matching a created schedule with members is
\* found and returns members[0] of a schedule of the team matching the instant, which
\* is that schedule when no other schedule of the team matches the instant.
C6_FreshPointer ==
    /\ \A r \in db.rotations :
           /\ r.current_position = 0
           /\ \E row \in db.schedules, u \in db.users :
                  /\ row.id = r.schedule_id
                  /\ u.id = r.current_user_id
                  /\ u.username = ScanSchedule(db, row).Members[1]
    /\ (storage = "postgres" /\ ret.op = "GetCurrentOncall") =>
           \A i \in 1..Len(added[ret.team]) :
               LET S == added[ret.team][i]
                   others == {j \in 1..Len(added[ret.team]) :
                                 j # i /\ InsideSeconds(added[ret.team][j], ret.at)}
               IN (Len(S.Members) > 0 /\ InsideSeconds(S, ret.at))
                      => /\ ret.ok
                         /\ \E j \in 1..Len(added[ret.team]) :
                                /\ InsideSeconds(added[ret.team][j], ret.at)
                                /\ Len(added[ret.team][j].Members) > 0
                                /\ ret.oncall = added[ret.team][j].Members[1]
                         /\ others = {} => ret.oncall = S.Members[1]

\* a query resolved through the team's only schedule, which has two members
C6_Witness ==
    /\ storage = "postgres"
    /\ ret.op = "GetCurrentOncall"
    /\ ret.ok
    /\ Len(added[ret.team]) = 1
    /\ Len(added[ret.team][1].Members) = 2
    /\ InsideSeconds(added[ret.team][1], ret.at)
    /\ ret.oncall = added[ret.team][1].Members[1]

NotFound == [oncall |-> "", ok |-> FALSE, via |-> 0]

C9_AllOrNothing ==
    [][/\ (tx.pc # "idle" /\ tx'.pc = "idle" /\ ret'.err # "nil") => db' = db
       /\ db' # db => /\ tx.pc = "commit"
                      /\ tx'.pc = "idle"
                      /\ ret'.op = "AddSchedule"
                      /\ ret'.err = "nil"
                      /\ db' = tx.work]_vars

\* the second member insert failed after team, users, schedule, days and one member
C9_Witness ==
    /\ ret.op = "AddSchedule"
    /\ ret.err = "failed to insert schedule member"
    /\ TeamRows(db, ret.team) = {}
    /\ db.users = {}
    /\ tx.pc = "idle"

\* how often S is in a list of schedules
Count(scheds, S) == Cardinality({i \in 1..Len(scheds) : scheds[i] = S})

\* C10: when all concurrent AddSchedule calls have returned, every team's list holds
\* exactly the schedules the callers added to it.
C10_NoLostUpdate ==
    (\A g \in Writers : pc[g] = "done") =>
        \A team \in Teams :
            /\ Len(MapGet(data, team).Schedules)
                   = Cardinality({g \in Writers : local[g].team = team})
            /\ \A S \in Schedules :
                   Count(MapGet(data, team).Schedules, S)
                       = Cardinality({g \in Writers : local[g].team = team
                                                        /\ local[g].schedule = S})

\* all writers added to the same team and have returned
C10_Witness ==
    /\ \A g \in Writers : pc[g] = "done" /\ local[g].team = "ops"
    /\ Len(MapGet(data, "ops").Schedules) = NumWriters

\* the first k schedules of a list
Prefix(scheds, k) == SubSeq(scheds, 1, k)

\* what each read returns of a team whose list is scheds (an empty list: the
\* team has no key yet, every AddSchedule appends)
ReadOf(op, scheds, at) ==
    IF op = "GetTeam"
    THEN [Schedules |-> scheds, ok |-> Len(scheds) > 0, oncall |-> ""]
    ELSE LET r == MemoryScan(scheds, 1, at)
         IN [Schedules |-> << >>, ok |-> r.ok, oncall |-> r.oncall]

\* C11: a GetTeam or GetCurrentOncall that runs while AddSchedule calls are in
\* progress on MemoryStorage is never inside its read while a writer is inside
\* its read-append-write, and what it returns is what the read gives on the
\* team's list as it stood between two writes: the schedules of a run of
\* completed AddSchedule calls, whole, never a list holding part of a write.
C11_AtomicVisibility ==
    \A g \in Readers :
        /\ pc[g] \in {"read", "RUnlock"} =>
               \A w \in Writers : pc[w] \notin {"get", "append", "set", "Unlock"}
        /\ pc[g] \in {"RUnlock", "done"} =>
               \E k \in 0..Len(added[local[g].team]) :
                   LET seen == ReadOf(local[g].out.op, Prefix(added[local[g].team], k),
                                      local[g].at)
                   IN /\ local[g].out.Schedules = seen.Schedules
                      /\ local[g].out.ok = seen.ok
                      /\ local[g].out.oncall = seen.oncall

\* a reader returned the team's list of one schedule while a second writer of
\* the same team was waiting for the lock the reader held
C11_Witness ==
    \E g \in Readers, w \in Writers :
        /\ pc[g] = "RUnlock"
        /\ local[g].out.op = "GetTeam"
        /\ Len(local[g].out.Schedules) = 1
        /\ pc[w] = "Lock"
        /\ local[w].team = local[g].team

\* a create request that breaks a validation rule: a field missing, a day that
\* is no weekday name, a time that is not 3:04PM, or start not before end
Invalid(req) ==
    \/ req.Team = ""
    \/ req.Members = << >>
    \/ req.Days = << >>
    \/ req.Start = << >>
    \/ req.End = << >>
    \/ \E i \in DOMAIN req.Days : \A n \in Range(WeekdayNames) : ~EqualFold(req.Days[i], n)
    \/ ParseKitchen(req.Start).err # "nil"
    \/ ParseKitchen(req.End).err # "nil"
    \/ Clock(ParseKitchen(req.Start).t) >= Clock(ParseKitchen(req.End).t)

\* C12: the step that answers a create request breaking a validation rule
\* answers 400 and is no call of AddSchedule: the map, the tables, the
\* transaction and the record of added schedules are as before the request.
C12_ValidationPrecedesStore ==
    [][(ret' # ret /\ ret'.req.body = "json" /\ Invalid(ret'.req)) =>
           /\ ret'.status = 400
           /\ ret'.op = "POST /schedule"
           /\ data' = data /\ db' = db /\ tx' = tx /\ added' = added]_vars

\* a request with start after end was answered 400 by a store that holds a schedule
C12_Witness ==
    /\ ret.status = 400
    /\ ret.err = "start time must be before end time"
    /\ Clock(ParseKitchen(ret.req.Start).t) > Clock(ParseKitchen(ret.req.End).t)
    /\ \/ \E team \in DOMAIN data : Len(data[team].Schedules) > 0
       \/ db.schedules # {}

\* C13: when the AddSchedule call made for a create request returned an error,
\* the response to that request reports a failure (a 4xx or 5xx status), never
\* 201 Created.
C13_StoreFaultSurfaced ==
    (ret.req.body = "json" /\ ret.op = "AddSchedule" /\ ret.err # "nil") =>
        ret.status >= 400 /\ ret.status # 201

\* what the active store's GetCurrentOncall can return for the team and instant
StoreOncall(team, at) ==
    IF storage = "memory" THEN {MemoryOncall(data, team, at)}
    ELSE PostgresOncall(db, team, at)

\* C14: a GET /schedule that got past its parameter checks answers 200 exactly
\* when the store's GetCurrentOncall finds an on-call member for the team and
\* instant, and the identity in the response is the one GetCurrentOncall
\* returns.
C14_HandlerDelegates ==
    (ret.op = "GET /schedule" /\ ret.status # 400) =>
        \E r \in StoreOncall(ret.team, ret.at) :
            /\ (ret.status = 200) = r.ok
            /\ r.ok => ret.body = <<r.oncall>>

\* C15: a GET /schedule for a team with a schedule that holds the instant and
\* has members answers 200, and a 200 carries the object {"oncall": member}
\* naming one member; with MemoryStorage the member is the first member of a
\* schedule of the team that holds the instant.
C15_OneOncallMember ==
    /\ (ret.op = "GET /schedule" /\ ret.status # 400
            /\ \E S \in Stored(ret.team) : InsideClosed(S, ret.at) /\ Len(S.Members) > 0)
           => ret.status = 200
    /\ (ret.op = "GET /schedule" /\ ret.status = 200)
           => /\ ret.json = "oncall"
              /\ Len(ret.body) = 1
              /\ storage = "memory" =>
                     \E S \in Stored(ret.team) :
                         InsideClosed(S, ret.at) /\ ret.body[1] = Index(S.Members, 1)

\* the team has no key in the map, no row in teams
NeverAdded(team) ==
    IF storage = "memory" THEN team \notin DOMAIN data ELSE TeamRows(db, team) = {}

\* C16: a GET /schedule with valid parameters for a team that was never added
\* answers 404 with the error message "no oncall member found".
C16_UnknownTeamMessage ==
    (ret.op = "GET /schedule" /\ ret.status # 400 /\ NeverAdded(ret.team)) =>
        ret.status = 404 /\ ret.err = "no oncall member found"

\* C17: the step that answers a create request whose name is missing or empty
\* answers 400 and stores nothing.
C17_NameRequired ==
    [][(ret' # ret /\ ret'.req.body = "json" /\ ret'.req.Name = "") =>
           /\ ret'.status = 400
           /\ data' = data /\ db' = db /\ tx' = tx /\ added' = added]_vars

\* C18: no team holds two schedules of one name, in the map of MemoryStorage
\* and in the committed rows of PostgresStorage.
C18_NamesUniqueInTeam ==
    /\ \A team \in DOMAIN data :
           \A i, j \in 1..Len(data[team].Schedules) :
               data[team].Schedules[i].Name = data[team].Schedules[j].Name => i = j
    /\ \A r, q \in db.schedules : (r.team_id = q.team_id /\ r.name = q.name) => r = q

\* the rotation rows of a schedules row, and its members in position order
RotationOf(d, s) == {r \in d.rotations : r.schedule_id = s.id}

MembersOf(d, s) == MembersByPosition({m \in d.schedule_members : m.schedule_id = s.id}, d.users)

\* exactly one rotation row, at position 0, whose user is members[0]
RotationAtFirst(d, s) ==
    \E r \in RotationOf(d, s) :
        /\ RotationOf(d, s) = {r}
        /\ r.current_position = 0
        /\ Len(MembersOf(d, s)) > 0
        /\ \E u \in d.users : u.id = r.current_user_id /\ u.username = MembersOf(d, s)[1]

\* C19 as claimed: every committed schedule has exactly one rotation row, at
\* position 0, a valid index into its members, whose current user is members[0].
C19_EveryScheduleHasRotation ==
    \A s \in db.schedules : RotationAtFirst(db, s)

\* C19 as amended: every committed schedule with at least one member has
\* exactly one rotation row, at position 0, whose current user is members[0],
\* and a schedule without members has none; a rotation row is committed by
\* the step that commits its schedule, and no step changes or removes a
\* committed rotation row.
C19_RotationRows ==
    /\ [](\A s \in db.schedules :
              IF Len(MembersOf(db, s)) > 0 THEN RotationAtFirst(db, s)
              ELSE RotationOf(db, s) = {})
    /\ [][/\ db.rotations \subseteq db'.rotations
          /\ \A r \in db'.rotations \ db.rotations :
                 \E s \in db'.schedules \ db.schedules : r.schedule_id = s.id]_vars

\* a schedule with its rotation row and a schedule without members, and so
\* without one, are committed, and a GetCurrentOncall has found the first
C19_Witness ==
    /\ \E s, q \in db.schedules :
           /\ RotationAtFirst(db, s)
           /\ Len(MembersOf(db, q)) = 0 /\ RotationOf(db, q) = {}
           /\ ret.via = s.id
    /\ ret.op = "GetCurrentOncall" /\ ret.ok

\* C20: the step in which GetTeam or GetCurrentOncall returns, found or not,
\* leaves the map of MemoryStorage and every table of PostgresStorage, the
\* rotation rows among them, as they were.
C20_ReadOnly ==
    [][(ret' # ret /\ ret'.op \in {"GetTeam", "GetCurrentOncall"}) =>
           data' = data /\ db' = db /\ tx' = tx]_vars

\* a GetCurrentOncall of a team that was never added came back not found
\* while the store holds a schedule of another team
C20_Witness ==
    /\ ret.op = "GetCurrentOncall" /\ ~ret.ok
    /\ NeverAdded(ret.team)
    /\ \E team \in Teams : Stored(team) # {}

\* the message of the first rule a request breaks, the rules taken in the
\* order team, members, days, start, end
FirstMissing(req) ==
    CASE req.Team = "" -> "team is required"
      [] req.Team # "" /\ req.Members = << >> -> "at least one member is required"
      [] req.Team # "" /\ req.Members # << >> /\ req.Days = << >> ->
             "at least one day is required"
      [] req.Team # "" /\ req.Members # << >> /\ req.Days # << >> /\ req.Start = << >> ->
             "start time is required"
      [] req.Team # "" /\ req.Members # << >> /\ req.Days # << >> /\ req.Start # << >>
             /\ req.End = << >> -> "end time is required"
      [] OTHER -> "nil"

\* C21: the response to a create request that breaks one of the five
\* required-field rules is 400 with the message of the first rule broken, in
\* the order team, members, days, start, end; and a request with every field
\* present, weekday names and times that parse, and start not before end is
\* answered 400 "start time must be before end time".
C21_FirstViolatedRule ==
    /\ (ret.req.body = "json" /\ FirstMissing(ret.req) # "nil")
           => ret.status = 400 /\ ret.err = FirstMissing(ret.req)
    /\ (ret.req.body = "json" /\ FirstMissing(ret.req) = "nil"
            /\ \A i \in DOMAIN ret.req.Days :
                   \E n \in Range(WeekdayNames) : EqualFold(ret.req.Days[i], n)
            /\ ParseKitchen(ret.req.Start).err = "nil"
            /\ ParseKitchen(ret.req.End).err = "nil"
            /\ Clock(ParseKitchen(ret.req.Start).t) >= Clock(ParseKitchen(ret.req.End).t))
           => ret.status = 400 /\ ret.err = "start time must be before end time"

\* a request without members, days and end was told of its members
C21_Witness ==
    /\ ret.status = 400
    /\ ret.req.Members = << >> /\ ret.req.Days = << >> /\ ret.req.End = << >>
    /\ ret.err = "at least one member is required"

\* C22: under fair scheduling every AddSchedule, GetTeam and GetCurrentOncall
\* call started on the one MemoryStorage returns, whatever other calls run
\* beside it.
C22_EveryCallReturns ==
    \A g \in Goroutines : (pc[g] # "idle") ~> (pc[g] = "done")

\* every goroutine has made its call and returned, writers and readers of one
\* team among them, and the mutex is free
C22_Witness ==
    /\ \A g \in Goroutines : pc[g] = "done"
    /\ \E w \in Writers, r \in Readers : local[w].team = local[r].team
    /\ mu = [w |-> 0, r |-> {}]

\* the weekday and the second of the day an instant shows in its own offset
WallWeekday(T) == (4 + ((T.sec + T.off) \div 86400)) % 7

WallClock(T) == (T.sec + T.off) % 86400

OnWallDay(S, T) == \E i \in 1..Len(S.Days) : S.Days[i] = WallWeekday(T)

\* pairs of different instants that show the same weekday and time of day
WallTwins ==
    {p \in Instants \X Instants :
        /\ p[1] # p[2]
        /\ WallWeekday(p[1]) = WallWeekday(p[2])
        /\ WallClock(p[1]) = WallClock(p[2])
        /\ p[1].nsec = p[2].nsec}

\* C23: GetCurrentOncall and GET /schedule match on the weekday and time of
\* day the instant shows in its own offset: a found answer comes from a
\* schedule whose days hold that weekday and whose window holds that time, a
\* schedule with members whose days hold that weekday and whose window holds
\* that time before its end is found, and two instants showing the same
\* weekday and time in different offsets get the same answers.
C23_LocalOffsetMatching ==
    /\ (ret.op = "GetCurrentOncall" /\ ret.ok) =>
           \E S \in Stored(ret.team) :
               /\ OnWallDay(S, ret.at)
               /\ S.Start.sec <= WallClock(ret.at) /\ WallClock(ret.at) <= S.End.sec
               /\ ret.oncall = Index(S.Members, 1)
    /\ (ret.op = "GET /schedule" /\ ret.status = 200) =>
           \E S \in Stored(ret.team) :
               /\ OnWallDay(S, ret.at)
               /\ S.Start.sec <= WallClock(ret.at) /\ WallClock(ret.at) <= S.End.sec
               /\ ret.body = S.Members
    /\ (/\ ret.op \in {"GetCurrentOncall", "GET /schedule"} /\ ret.status # 400
        /\ \E S \in Stored(ret.team) :
               /\ OnWallDay(S, ret.at) /\ Len(S.Members) > 0
               /\ S.Start.sec <= WallClock(ret.at) /\ WallClock(ret.at) < S.End.sec)
           => ret.ok \/ ret.status = 200
    /\ tx.pc = "idle" =>
           \A team \in Teams, p \in WallTwins :
               StoreOncall(team, p[1]) = StoreOncall(team, p[2])

\* a member was found at Monday 09:00 +12:00, which is Sunday 21:00 in UTC
C23_Witness ==
    /\ ret.op = "GetCurrentOncall" /\ ret.ok
    /\ (4 + (ret.at.sec \div 86400)) % 7 # WallWeekday(ret.at)

\* the store's own matcher applied to a schedule as it was added
Matches(S, at) ==
    IF storage = "memory" THEN dayMatches(S, at) /\ MemoryInWindow(S, at)
    ELSE OnDay(S, at) /\ S.Start.sec <= Clock(at) /\ Clock(at) <= S.End.sec

\* the place, in the order of adding, of the team's first schedule matching at
FirstMatch(team, at) ==
    LET hits == {i \in 1..Len(added[team]) : Matches(added[team][i], at)}
    IN IF hits = {} THEN 0 ELSE CHOOSE i \in hits : \A j \in hits : i <= j

\* C24: in both stores, when the earliest-added schedule of the team matching
\* the instant has members, GetCurrentOncall returns that schedule's on-call
\* member, and a store state admits one answer for each team and instant.
C24_FirstMatchWins ==
    /\ (/\ ret.op = "GetCurrentOncall"
        /\ FirstMatch(ret.team, ret.at) # 0
        /\ Len(added[ret.team][FirstMatch(ret.team, ret.at)].Members) > 0)
           => /\ ret.ok
              /\ ret.oncall = added[ret.team][FirstMatch(ret.team, ret.at)].Members[1]
    /\ tx.pc = "idle" =>
           \A team \in Teams, at \in Instants :
               Cardinality({<<r.oncall, r.ok>> : r \in StoreOncall(team, at)}) = 1

\* C25: in both stores, when the earliest-added schedule of the team matching
\* the instant has no members, GetCurrentOncall returns not-found, whatever
\* later schedules of the team match.
C25_NoFallThrough ==
    (/\ ret.op = "GetCurrentOncall"
     /\ FirstMatch(ret.team, ret.at) # 0
     /\ Len(added[ret.team][FirstMatch(ret.team, ret.at)].Members) = 0)
        => ~ret.ok /\ ret.oncall = ""

\* at least one member, at least one weekday, start of day before end of day
WellFormed(S) ==
    /\ Len(S.Members) > 0
    /\ Len(S.Days) > 0
    /\ S.Start.sec % 86400 < S.End.sec % 86400

\* C26: every schedule CreateSchedule hands to the store, and every schedule
\* the store holds, has at least one member, at least one weekday and a start
\* time of day strictly before its end; a request whose start and end parse
\* and whose start is not before its end is answered 400 and nothing is
\* stored for it.
C26_StoredSchedulesWellFormed ==
    /\ \A team \in Teams \cup {""} : \A S \in Stored(team) : WellFormed(S)
    /\ \A team \in Teams : \A i \in 1..Len(added[team]) : WellFormed(added[team][i])
    /\ tx.pc # "idle" => WellFormed(tx.schedule)
    /\ (/\ ret.req.body = "json"
        /\ ParseKitchen(ret.req.Start).err = "nil"
        /\ ParseKitchen(ret.req.End).err = "nil"
        /\ ParseKitchen(ret.req.Start).t.sec >= ParseKitchen(ret.req.End).t.sec)
           => ret.status = 400 /\ ret.op = "POST /schedule"

\* a request was answered 201 and its schedule is in the store
C26_Witness ==
    /\ ret.status = 201 /\ ret.err = "nil"
    /\ \E S \in Stored(ret.req.Team) : S.Name = ret.req.Name /\ S.Members = ret.req.Members

\* the upper-case and lower-case forms of an ASCII letter; any other rune alone
AsciiCase(c) ==
    {c} \cup UNION {{Upper[i], Lower[i]} : i \in {j \in 1..26 : c \in {Upper[j], Lower[j]}}}

\* text is name with every letter in upper or lower case
SpelledAscii(text, name) ==
    /\ Len(text) = Len(name)
    /\ \A i \in 1..Len(name) : text[i] \in AsciiCase(name[i])

\* as SpelledAscii, and an s may be written U+017F, a k U+212A
SpelledFolded(text, name) ==
    /\ Len(text) = Len(name)
    /\ \A i \in 1..Len(name) :
           \/ text[i] \in AsciiCase(name[i])
           \/ text[i] = "U+017F" /\ name[i] \in {"s", "S"}
           \/ text[i] = "U+212A" /\ name[i] \in {"k", "K"}

\* with Spelled saying which texts spell a name: on the day texts of a create
\* request parseWeekday returns the weekday value of the name a text spells
\* and an error for a text spelling no name; a create request with its fields present and a day text spelling no
\* name is answered 400 "invalid day" with the first such text; one whose day
\* texts all spell names, with a start before its end, is answered 201 and is
\* stored with the weekday values of the names
ParsesNames(Spelled(_, _)) ==
    LET Named(text) == \E wd \in Weekdays : Spelled(text, WeekdayNames[wd + 1])
        ValueOf(text) == CHOOSE wd \in Weekdays : Spelled(text, WeekdayNames[wd + 1])
        req == ret.req
        unnamed == {i \in 1..Len(req.Days) : ~Named(req.Days[i])}
    IN /\ req.body = "json" =>
              \A text \in Range(req.Days) :
                  IF Named(text) THEN parseWeekday(text) = [day |-> ValueOf(text), err |-> "nil"]
                  ELSE parseWeekday(text).err # "nil"
       /\ (req.body = "json" /\ FirstMissing(req) = "nil" /\ unnamed # {}) =>
              /\ ret.status = 400 /\ ret.err = "invalid day: %s"
              /\ \E i \in unnamed : ret.body = req.Days[i] /\ \A j \in unnamed : i <= j
       /\ (/\ req.body = "json" /\ FirstMissing(req) = "nil" /\ unnamed = {}
           /\ ParseKitchen(req.Start).err = "nil" /\ ParseKitchen(req.End).err = "nil"
           /\ ParseKitchen(req.Start).t.sec < ParseKitchen(req.End).t.sec) =>
              /\ ret.status = 201
              /\ ret.err = "nil" =>
                     \E S \in Stored(req.Team) :
                         S.Days = [i \in 1..Len(req.Days) |-> ValueOf(req.Days[i])]

\* C27 as claimed: parseWeekday accepts exactly the seven English weekday names
\* with their letters in any case, mapping Sunday to 0 .. Saturday to 6, and
\* returns an error for every other string, the empty string included;
\* CreateSchedule turns the error into 400 "invalid day".
C27_ExactlySevenNames == ParsesNames(SpelledAscii)

\* C27 as amended: parseWeekday accepts exactly the strings equal to one of the
\* seven English weekday names under Unicode simple case folding, which are the
\* names with their letters in any case and with an s written as U+017F or
\* not; it maps Sunday to 0 .. Saturday to 6 and returns an error for every
\* other string, the empty string included; CreateSchedule turns the error
\* into 400 "invalid day".
C27_FoldedNames == ParsesNames(SpelledFolded)

\* the request naming every weekday in mixed case was stored as Sunday..Saturday
C27_Witness ==
    /\ ret.status = 201 /\ ret.err = "nil" /\ ret.req.Days = AllDays
    /\ \E S \in Stored(ret.req.Team) : S.Days = <<0, 1, 2, 3, 4, 5, 6>>

\* list a is the beginning of list b
StartsWith(b, a) == Len(a) <= Len(b) /\ SubSeq(b, 1, Len(a)) = a

\* C28: a step of MemoryStorage keeps every team it holds and every team's
\* schedules as a prefix of what the team holds after it, and a step that
\* changes the map is an AddSchedule(t, S) after which team t holds what it
\* held followed by S, and every other team holds what it held.
C28_AppendOnly ==
    [][storage = "memory" =>
        /\ DOMAIN data \subseteq DOMAIN data'
        /\ \A k \in DOMAIN data : StartsWith(data'[k].Schedules, data[k].Schedules)
        /\ data' # data =>
               /\ ret'.op = "AddSchedule"
               /\ \E t \in DOMAIN data' :
                      /\ t = ret'.team
                      /\ Len(added'[t]) = Len(added[t]) + 1
                      /\ data'[t].Schedules =
                             Append(MapGet(data, t).Schedules, added'[t][Len(added'[t])])
                      /\ \A k \in DOMAIN data' \ {t} : k \in DOMAIN data /\ data'[k] = data[k]]_vars

\* a schedule was added for one team while the map held another
C28_Witness ==
    /\ storage = "memory" /\ ret.op = "AddSchedule"
    /\ DOMAIN data = {"ops", "dev"}

\* the member list names an identity twice
NamesTwice(S) ==
    \E i, j \in 1..Len(S.Members) : i < j /\ S.Members[i] = S.Members[j]

\* C29: a PostgresStorage.AddSchedule whose member list names an identity
\* twice never inserts the second of the two member rows, ends with an error
\* and leaves the committed rows as they were before it, so no schedule in the
\* tables lists a user twice; MemoryStorage.AddSchedule returns nil for every
\* schedule and stores such a schedule as it is.
C29_DuplicateMemberFailsWhole ==
    /\ [](/\ \A r, q \in db.schedule_members :
                (r.schedule_id = q.schedule_id /\ r.user_id = q.user_id) => r = q
          /\ (storage = "postgres" /\ tx.pc = "idle") =>
                 \A t \in Teams : \A i \in 1..Len(added[t]) : ~NamesTwice(added[t][i])
          /\ (storage = "memory" /\ ret.op = "AddSchedule") =>
                 /\ ret.err = "nil"
                 /\ \A t \in Teams : added[t] = MapGet(data, t).Schedules)
    /\ [][(tx.pc # "idle" /\ NamesTwice(tx.schedule)) =>
              /\ (tx'.pc = "idle") =>
                     (ret'.op = "AddSchedule" /\ ret'.err # "nil" /\ db' = db /\ added' = added)
              /\ (/\ tx.pc = "member"
                  /\ \E i \in 1..(tx.i - 1) : tx.schedule.Members[i] = tx.schedule.Members[tx.i]) =>
                     (tx'.pc = "idle" /\ ret'.err \in {"failed to insert schedule member",
                                                       "store fault"})]_vars

\* [Alice, Alice] was refused after another schedule had been committed, and
\* the tables hold that schedule's rows and no others
C29_Witness ==
    /\ storage = "postgres" /\ tx.pc = "idle"
    /\ ret.op = "AddSchedule" /\ ret.err = "failed to insert schedule member"
    /\ Cardinality(db.schedules) = 1
    /\ \A r \in db.schedule_members \cup db.schedule_days \cup db.rotations :
           \A x \in db.schedules : r.schedule_id = x.id

\* the map MemoryStorage holds after the AddSchedule calls of the history
MemoryAfter(history) ==
    [t \in {k \in DOMAIN history : history[k] # << >>} |-> [Schedules |-> history[t]]]

\* distinct members, distinct weekdays, start before end
Tidy(S) ==
    /\ \A i, j \in 1..Len(S.Members) : S.Members[i] = S.Members[j] => i = j
    /\ \A i, j \in 1..Len(S.Days) : S.Days[i] = S.Days[j] => i = j
    /\ S.Start.sec < S.End.sec

\* the calls added tidy schedules, under names distinct within each team
TidyHistory ==
    \A t \in Teams :
        \A i \in 1..Len(added[t]) :
            /\ Tidy(added[t][i])
            /\ \A j \in 1..Len(added[t]) : added[t][i].Name = added[t][j].Name => i = j

\* a whole second, at no window's end, inside the window of at most one of the
\* team's schedules on its weekday
AwayFromDivergences(team, at) ==
    /\ at.nsec = 0
    /\ \A i \in 1..Len(added[team]) : WallClock(at) # added[team][i].End.sec
    /\ Cardinality({i \in 1..Len(added[team]) :
                       /\ OnWallDay(added[team][i], at)
                       /\ added[team][i].Start.sec <= WallClock(at)
                       /\ WallClock(at) <= added[team][i].End.sec}) <= 1

\* C30: after successful AddSchedule calls of schedules with names distinct
\* within their team, distinct members, distinct weekdays and start before
\* end, PostgresStorage.GetCurrentOncall returns, for a team and a
\* whole-second instant that is at no window's end and matches at most one
\* schedule of the team, the identity and found flag that
\* MemoryStorage.GetCurrentOncall returns after the same calls.
C30_BackendsAgree ==
    (/\ storage = "postgres"
     /\ ret.op = "GetCurrentOncall"
     /\ TidyHistory
     /\ AwayFromDivergences(ret.team, ret.at))
        => LET m == MemoryOncall(MemoryAfter(added), ret.team, ret.at)
           IN ret.oncall = m.oncall /\ ret.ok = m.ok

\* two schedules were added for the team and the instant is inside the second only
C30_Witness ==
    /\ storage = "postgres" /\ ret.op = "GetCurrentOncall" /\ ret.ok
    /\ TidyHistory /\ AwayFromDivergences(ret.team, ret.at)
    /\ Len(added[ret.team]) = 2
    /\ ret.oncall = Index(added[ret.team][2].Members, 1)
    /\ ret.oncall # Index(added[ret.team][1].Members, 1)

====
